---- MODULE Spec2Model ----
(***************************************************************************)
(* The request side of the oauth2 crate: the request assembler             *)
(* endpoint_request, the response decoder endpoint_response, the builders  *)
(* that send one request (code, refresh, password, client credentials,     *)
(* introspection, device authorization) and device-code polling (RFC 8628  *)
(* section 3.4): DeviceAccessTokenRequest::request / request_async,        *)
(* process_response and compute_timeout.                                   *)
(* Durations and instants are whole seconds.                               *)
(***************************************************************************)
EXTENDS Integers, Sequences, FiniteSets, TLC

(* ------------------------------ bounds -------------------------------- *)
\* transport invocations explored per polling session
MaxPolls == 4
\* std::time::Duration::MAX in seconds, scaled down
DURATION_MAX == 45
\* largest chrono::Duration, scaled down (smaller than DURATION_MAX)
CHRONO_DURATION_MAX == 12
\* largest chrono::DateTime<Utc>, scaled down
DATETIME_MAX == 9

(* ------------------------- program constants -------------------------- *)
\* Duration::from_secs(5) added on slow_down
SLOW_DOWN_SECS == 5
\* factor of checked_mul on a transport failure
BACKOFF_FACTOR == 2
\* StatusCode::OK
STATUS_OK == 200

CONTENT_TYPE_JSON ==
  <<"a","p","p","l","i","c","a","t","i","o","n","/","j","s","o","n">>

\* Option<T>: None, or Some(x)
None == <<>>
Some(x) == <<x>>
unwrap(o) == o[1]

(* ------------------------------ strings ------------------------------- *)
UpperToLower ==
  [c \in {"A","P","L","I","C","T","O","N","J","S"} |->
     CASE c = "A" -> "a" [] c = "P" -> "p" [] c = "L" -> "l" [] c = "I" -> "i"
       [] c = "C" -> "c" [] c = "T" -> "t" [] c = "O" -> "o" [] c = "N" -> "n"
       [] c = "J" -> "j" [] c = "S" -> "s"]

\* str::to_lowercase
to_lowercase(s) ==
  [i \in 1..Len(s) |-> IF s[i] \in DOMAIN UpperToLower THEN UpperToLower[s[i]] ELSE s[i]]

\* str::starts_with
starts_with(s, prefix) ==
  /\ Len(s) >= Len(prefix)
  /\ SubSeq(s, 1, Len(prefix)) = prefix

\* a byte outside visible ASCII, on which HeaderValue::to_str fails
NON_ASCII == "0xFF"

\* HeaderValue::to_str(..).ok(): None when a byte is not visible ASCII
to_str_ok(v) == \A i \in 1..Len(v) : v[i] # NON_ASCII

(* ---------------------------- JSON bodies ----------------------------- *)
\* A body is a sequence of lexical tokens of a JSON text; <<>> is the empty body.
\* A JSON object is  "{" k1 ":" v1  k2 ":" v2 ... "}".
IsObject(body) ==
  /\ Len(body) >= 2
  /\ body[1] = "{"
  /\ body[Len(body)] = "}"
  /\ (Len(body) - 2) % 3 = 0
  /\ \A i \in 1..((Len(body) - 2) \div 3) : body[3 * i] = ":"

HasField(body, k) ==
  \E i \in 1..((Len(body) - 2) \div 3) : body[3 * i - 1] = k

Field(body, k) ==
  LET i == CHOOSE j \in 1..((Len(body) - 2) \div 3) : body[3 * j - 1] = k
  IN  body[3 * i + 1]

\* serde_json::from_slice::<DeviceCodeErrorResponse>: the `error` member is required
ParsesAsTE(body) == IsObject(body) /\ HasField(body, "error")

\* serde_json::from_slice::<StandardTokenResponse>: access_token and token_type are required
ParsesAsDO(body) ==
  IsObject(body) /\ HasField(body, "access_token") /\ HasField(body, "token_type")

(* ------------------------ classified results -------------------------- *)
NoBody == <<"-">>

Ok(token) == [kind |-> "Ok", val |-> token, body |-> NoBody]
ServerResponse(error) == [kind |-> "ServerResponse", val |-> error, body |-> NoBody]
Request(re) == [kind |-> "Request", val |-> re, body |-> NoBody]
Parse(raw) == [kind |-> "Parse", val |-> "serde_json::Error", body |-> raw]
Other(msg) == [kind |-> "Other", val |-> msg, body |-> NoBody]

NoResult == [kind |-> "None", val |-> "", body |-> NoBody]

(* ----------------------------- the decoder ---------------------------- *)
NoHeader == <<"-">>

\* variant: the body of an undecodable error response is dropped
decode_error_lossy(body) ==
  IF body = <<>>
  THEN Other("Server returned empty error response")
  ELSE IF ParsesAsTE(body)
       THEN ServerResponse(Field(body, "error"))
       ELSE Parse(<<>>)

\* if http_response.status_code != StatusCode::OK { .. return Err(..) }
decode_error(body) ==
  IF body = <<>>
  THEN Other("Server returned empty error response")
  ELSE IF ParsesAsTE(body)
       THEN ServerResponse(Field(body, "error"))
       ELSE Parse(body)

\* variant: the header value is compared as it is
content_type_accepted_cased(content_type) ==
  \/ content_type = NoHeader
  \/ /\ to_str_ok(content_type)
     /\ starts_with(content_type, CONTENT_TYPE_JSON)

\* headers.get(CONTENT_TYPE).map_or(Ok(()), |content_type| ..)
content_type_accepted(content_type) ==
  \/ content_type = NoHeader
  \/ /\ to_str_ok(content_type)
     /\ starts_with(to_lowercase(content_type), CONTENT_TYPE_JSON)

\* variant: a body that is no success value is read as a server error
decode_success_or_error(body) ==
  IF body = <<>>
  THEN Other("Server returned empty response body")
  ELSE IF ParsesAsDO(body)
       THEN Ok(Field(body, "access_token"))
       ELSE IF ParsesAsTE(body)
            THEN ServerResponse(Field(body, "error"))
            ELSE Parse(body)

\* if http_response.body.is_empty() { Err(Other(..)) } else { serde_json::from_slice(..) }
decode_success(body) ==
  IF body = <<>>
  THEN Other("Server returned empty response body")
  ELSE IF ParsesAsDO(body)
       THEN Ok(Field(body, "access_token"))
       ELSE Parse(body)

\* variant: the Content-Type is validated ahead of the status
endpoint_response_type_first(http_response) ==
  IF ~ content_type_accepted(http_response.content_type)
  THEN Other("Unexpected response Content-Type")
  ELSE IF http_response.status_code # STATUS_OK
       THEN decode_error(http_response.body)
       ELSE decode_success(http_response.body)

endpoint_response(http_response) ==
  IF http_response.status_code # STATUS_OK
  THEN decode_error(http_response.body)
  ELSE IF ~ content_type_accepted(http_response.content_type)
       THEN Other("Unexpected response Content-Type")
       ELSE decode_success(http_response.body)

(* --------------------------- transport results ------------------------ *)
HttpOk(status, ct, body) ==
  [ok |-> TRUE, status_code |-> status, content_type |-> ct, body |-> body]
TransportErr ==
  [ok |-> FALSE, status_code |-> 0, content_type |-> NoHeader, body |-> <<>>]

ErrorBody(code) == <<"{", "error", ":", code, "}">>
TokenBody == <<"{", "access_token", ":", "tok", "token_type", ":", "Bearer", "}">>
GarbageBody == <<"<html>">>

CT_HTML == <<"t","e","x","t","/","h","t","m","l">>
CT_JSON_CHARSET ==
  <<"A","p","p","l","i","c","a","t","i","o","n","/","J","S","O","N",";","c","h","a","r","s","e","t">>

\* what the transport collaborator may return to one device-token request
Responses ==
  { TransportErr,
    HttpOk(400, CONTENT_TYPE_JSON, ErrorBody("authorization_pending")),
    HttpOk(400, CONTENT_TYPE_JSON, ErrorBody("slow_down")),
    HttpOk(400, CONTENT_TYPE_JSON, ErrorBody("access_denied")),
    HttpOk(400, NoHeader, <<>>),
    HttpOk(400, CONTENT_TYPE_JSON, GarbageBody),
    HttpOk(STATUS_OK, CT_JSON_CHARSET, TokenBody),
    HttpOk(STATUS_OK, NoHeader, GarbageBody),
    HttpOk(STATUS_OK, CT_HTML, TokenBody) }

(* ------------------------- poll step results -------------------------- *)
ContinueWithNewPollInterval(d) == [tag |-> "Continue", interval |-> d, res |-> NoResult]
Done(res) == [tag |-> "Done", interval |-> 0, res |-> res]
\* the step panicked ("overflow when adding durations")
Panic == [tag |-> "Panic", interval |-> 0, res |-> NoResult]

\* variant: a transport failure surfaced as Request(..), as the non-device flows do
on_transport_failure_fatal(current_interval) == Done(Request("transport_error"))

\* variant: a transport failure halving the interval
on_transport_failure_halving(current_interval) ==
  ContinueWithNewPollInterval(current_interval \div BACKOFF_FACTOR)

\* Err(_) => current_interval.checked_mul(2).unwrap_or(current_interval)
on_transport_failure(current_interval) ==
  IF current_interval * BACKOFF_FACTOR <= DURATION_MAX
  THEN ContinueWithNewPollInterval(current_interval * BACKOFF_FACTOR)
  ELSE ContinueWithNewPollInterval(current_interval)

\* variant: authorization_pending lengthening the interval
on_authorization_pending_backoff(current_interval) ==
  ContinueWithNewPollInterval(current_interval + 1)

\* AuthorizationPending => ContinueWithNewPollInterval(current_interval)
on_authorization_pending(current_interval) ==
  ContinueWithNewPollInterval(current_interval)

\* variant: slow_down backing off multiplicatively
on_slow_down_triple(current_interval) ==
  IF current_interval * 3 <= DURATION_MAX
  THEN ContinueWithNewPollInterval(current_interval * 3)
  ELSE Panic

\* SlowDown => ContinueWithNewPollInterval(current_interval + Duration::from_secs(5));
\* Duration + Duration panics when the sum is not representable
on_slow_down(current_interval) ==
  IF current_interval + SLOW_DOWN_SECS <= DURATION_MAX
  THEN ContinueWithNewPollInterval(current_interval + SLOW_DOWN_SECS)
  ELSE Panic

\* variant: an undecodable response retried
on_terminal_retry_undecodable(r, current_interval) ==
  IF r.kind \in {"Parse", "Other"}
  THEN ContinueWithNewPollInterval(current_interval)
  ELSE Done(r)

\* variant: every server error retried
on_terminal_retry(r, current_interval) ==
  IF r.kind = "ServerResponse"
  THEN ContinueWithNewPollInterval(current_interval)
  ELSE Done(r)

\* _ => Done(Err(ServerResponse(dcer)), ..);  res => Done(res, ..)
on_terminal(r, current_interval) == Done(r)

process_response(res, current_interval) ==
  IF ~ res.ok
  THEN on_transport_failure(current_interval)
  ELSE LET r == endpoint_response(res)
       IN  IF r.kind = "ServerResponse" /\ r.val = "authorization_pending"
           THEN on_authorization_pending(current_interval)
           ELSE IF r.kind = "ServerResponse" /\ r.val = "slow_down"
                THEN on_slow_down(current_interval)
                ELSE on_terminal(r, current_interval)

\* variant: the smaller of the caller's timeout and expires_in
compute_timeout_min(timeout, expires_in, start) ==
  LET timeout_dur == IF timeout # None /\ unwrap(timeout) < expires_in
                     THEN unwrap(timeout) ELSE expires_in
  IN  IF timeout_dur > CHRONO_DURATION_MAX
      THEN [ok |-> FALSE, dt |-> 0, err |-> Other("Failed to convert duration")]
      ELSE IF start + timeout_dur > DATETIME_MAX
           THEN [ok |-> FALSE, dt |-> 0, err |-> Other("Failed to calculate timeout")]
           ELSE [ok |-> TRUE, dt |-> start + timeout_dur, err |-> NoResult]

\* compute_timeout with the clock reading `start`: the deadline, or an error
compute_timeout(timeout, expires_in, start) ==
  LET timeout_dur == IF timeout # None THEN unwrap(timeout) ELSE expires_in
  IN  IF timeout_dur > CHRONO_DURATION_MAX
      THEN [ok |-> FALSE, dt |-> 0, err |-> Other("Failed to convert duration")]
      ELSE IF start + timeout_dur > DATETIME_MAX
           THEN [ok |-> FALSE, dt |-> 0, err |-> Other("Failed to calculate timeout")]
           ELSE [ok |-> TRUE, dt |-> start + timeout_dur, err |-> NoResult]

(* --------------------- strings of the request side -------------------- *)
\* A string is a sequence of tokens: a token is one character, or a word of
\* characters that application/x-www-form-urlencoded leaves as they are
\* (ASCII letters and digits, '*', '-', '.', '_').
Word(w) == << w >>

\* the characters byte_serialize rewrites, each with the two hex digits of
\* its byte
Reserved == {" ", ":", "/", "&", "=", "+", "%"}
HexOf(c) ==
  CASE c = ":" -> << "3", "A" >>
    [] c = "/" -> << "2", "F" >>
    [] c = "&" -> << "2", "6" >>
    [] c = "=" -> << "3", "D" >>
    [] c = "+" -> << "2", "B" >>
    [] c = "%" -> << "2", "5" >>

RECURSIVE Flatten(_)
Flatten(ss) == IF ss = <<>> THEN <<>> ELSE Head(ss) \o Flatten(Tail(ss))

\* form_urlencoded::byte_serialize: ' ' becomes '+', an unreserved byte stays,
\* every other byte becomes %XX
byte_serialize(s) ==
  Flatten([i \in 1..Len(s) |->
             IF s[i] = " " THEN << "+" >>
             ELSE IF s[i] \in Reserved THEN << "%" >> \o HexOf(s[i])
             ELSE << s[i] >>])

RECURSIVE byte_parse(_)
\* what a server reads from one name or value (form_urlencoded::parse): '+' becomes ' ', %XX the byte
byte_parse(t) ==
  IF t = <<>> THEN <<>>
  ELSE IF Head(t) = "+" THEN << " " >> \o byte_parse(Tail(t))
  ELSE IF Head(t) = "%" /\ Len(t) >= 3
       THEN << CHOOSE c \in Reserved \ {" "} : HexOf(c) = << t[2], t[3] >> >>
            \o byte_parse(SubSeq(t, 4, Len(t)))
       ELSE << Head(t) >> \o byte_parse(Tail(t))

RECURSIVE Join(_, _)
\* the strings of ss with sep between every two of them
Join(ss, sep) ==
  IF ss = <<>> THEN <<>>
  ELSE IF Len(ss) = 1 THEN ss[1]
  ELSE ss[1] \o sep \o Join(Tail(ss), sep)

\* form_urlencoded::Serializer: name=value pairs joined by '&'
extend_pairs(params) ==
  Join([i \in 1..Len(params) |->
          byte_serialize(params[i][1]) \o << "=" >> \o byte_serialize(params[i][2])],
       << "&" >>)

RECURSIVE Split(_, _)
\* the pieces of t between the occurrences of the token sep
Split(t, sep) ==
  IF \A i \in DOMAIN t : t[i] # sep THEN << t >>
  ELSE LET k == CHOOSE i \in DOMAIN t : t[i] = sep /\ \A j \in 1..(i - 1) : t[j] # sep
       IN  << SubSeq(t, 1, k - 1) >> \o Split(SubSeq(t, k + 1, Len(t)), sep)

\* form_urlencoded::parse: the name/value pairs a server reads from a body
parse_pairs(body) ==
  IF body = <<>> THEN <<>>
  ELSE LET pieces == Split(body, "&")
       IN  [i \in 1..Len(pieces) |->
              LET p == pieces[i]
                  k == IF \E j \in DOMAIN p : p[j] = "="
                       THEN CHOOSE j \in DOMAIN p : p[j] = "=" /\ \A h \in 1..(j - 1) : p[h] # "="
                       ELSE Len(p) + 1
              IN  << byte_parse(SubSeq(p, 1, k - 1)), byte_parse(SubSeq(p, k + 1, Len(p))) >>]

\* the ASCII code of the characters credentials are made of
Ascii(c) ==
  CASE c = "a" -> 97  [] c = "b" -> 98  [] c = "p" -> 112 [] c = "w" -> 119
    [] c = ":" -> 58  [] c = " " -> 32  [] c = "+" -> 43  [] c = "%" -> 37
    [] c = "2" -> 50  [] c = "3" -> 51  [] c = "A" -> 65  [] c = "B" -> 66
AsciiChars == {"a", "b", "p", "w", ":", " ", "+", "%", "2", "3", "A", "B"}

\* the base64 alphabet, value v at position v + 1
B64 ==
  << "A", "B", "C", "D", "E", "F", "G", "H", "I", "J", "K", "L", "M",
     "N", "O", "P", "Q", "R", "S", "T", "U", "V", "W", "X", "Y", "Z",
     "a", "b", "c", "d", "e", "f", "g", "h", "i", "j", "k", "l", "m",
     "n", "o", "p", "q", "r", "s", "t", "u", "v", "w", "x", "y", "z",
     "0", "1", "2", "3", "4", "5", "6", "7", "8", "9", "+", "/" >>

RECURSIVE base64_bytes(_)
base64_bytes(b) ==
  IF b = <<>> THEN <<>>
  ELSE IF Len(b) = 1
       THEN << B64[(b[1] \div 4) + 1], B64[(b[1] % 4) * 16 + 1], "=", "=" >>
  ELSE IF Len(b) = 2
       THEN << B64[(b[1] \div 4) + 1], B64[(b[1] % 4) * 16 + (b[2] \div 16) + 1],
               B64[(b[2] % 16) * 4 + 1], "=" >>
  ELSE << B64[(b[1] \div 4) + 1], B64[(b[1] % 4) * 16 + (b[2] \div 16) + 1],
          B64[(b[2] % 16) * 4 + (b[3] \div 64) + 1], B64[(b[3] % 64) + 1] >>
       \o base64_bytes(SubSeq(b, 4, Len(b)))

\* base64::encode: three bytes become four characters, '=' pads the end
base64_encode(s) == base64_bytes([i \in 1..Len(s) |-> Ascii(s[i])])

B64Value(c) == (CHOOSE i \in 1..64 : B64[i] = c) - 1
Char(n) == CHOOSE c \in AsciiChars : Ascii(c) = n

RECURSIVE base64_decode(_)
\* what a server reads back from a base64 text
base64_decode(t) ==
  IF Len(t) < 4 THEN <<>>
  ELSE LET v1 == B64Value(t[1])
           v2 == B64Value(t[2])
       IN  IF t[3] = "=" THEN << Char(v1 * 4 + (v2 \div 16)) >>
           ELSE LET v3 == B64Value(t[3])
                IN  IF t[4] = "="
                    THEN << Char(v1 * 4 + (v2 \div 16)), Char((v2 % 16) * 16 + (v3 \div 4)) >>
                    ELSE << Char(v1 * 4 + (v2 \div 16)), Char((v2 % 16) * 16 + (v3 \div 4)),
                            Char((v3 % 4) * 64 + B64Value(t[4])) >>
                         \o base64_decode(SubSeq(t, 5, Len(t)))

(* ------------------------ the request assembler ----------------------- *)
CONTENT_TYPE_FORMENCODED == Word("application/x-www-form-urlencoded")

\* header names of the http crate
ACCEPT == "accept"
CONTENT_TYPE == "content-type"
AUTHORIZATION == "authorization"

HttpRequest(url, method, headers, body) ==
  [url |-> url, method |-> method, headers |-> headers, body |-> body]

\* variant: the scopes joined by commas
scope_param_commas(scopes) ==
  IF scopes # None /\ unwrap(scopes) # <<>>
  THEN << << Word("scope"), Join(unwrap(scopes), << "," >>) >> >>
  ELSE <<>>

\* let scopes_opt = ..; if let Some(ref scopes) = scopes_opt { params.push(("scope", scopes)) }
scope_param(scopes) ==
  IF scopes # None /\ unwrap(scopes) # <<>>
  THEN << << Word("scope"), Join(unwrap(scopes), << " " >>) >> >>
  ELSE <<>>

\* variant: a client without secret sends an empty client_secret field
auth_params_empty_secret(auth_type, client_id, client_secret) ==
  IF auth_type = "RequestBody"
  THEN << << Word("client_id"), client_id >>,
          << Word("client_secret"), IF client_secret # None THEN unwrap(client_secret) ELSE <<>> >> >>
  ELSE <<>>

\* match auth_type { RequestBody => params.push(client_id), params.push(client_secret) .. }
auth_params(auth_type, client_id, client_secret) ==
  IF auth_type = "RequestBody"
  THEN << << Word("client_id"), client_id >> >>
       \o (IF client_secret # None
           THEN << << Word("client_secret"), unwrap(client_secret) >> >>
           ELSE <<>>)
  ELSE <<>>

\* variant: the id and the secret go into the credential as they are
basic_credential_raw(client_id, client_secret) ==
  base64_encode(client_id \o << ":" >>
                \o (IF client_secret # None THEN unwrap(client_secret) ELSE <<>>))

\* base64::encode(format!("{}:{}", urlencoded_id, urlencoded_secret.unwrap_or("")))
basic_credential(client_id, client_secret) ==
  LET urlencoded_id == byte_serialize(client_id)
      urlencoded_secret == IF client_secret # None
                           THEN Some(byte_serialize(unwrap(client_secret)))
                           ELSE None
  IN  base64_encode(urlencoded_id \o << ":" >>
                    \o (IF urlencoded_secret # None THEN unwrap(urlencoded_secret) ELSE <<>>))

\* match auth_type { BasicAuth => headers.append(AUTHORIZATION, "Basic <credential>") .. }
auth_headers(auth_type, client_id, client_secret) ==
  IF auth_type = "BasicAuth"
  THEN << << AUTHORIZATION, << "Basic", " " >> \o basic_credential(client_id, client_secret) >> >>
  ELSE <<>>

\* variant: the parameters travel with a GET request
endpoint_request_get(auth_type, client_id, client_secret, extra_params, redirect_url, scopes, url, params) ==
  HttpRequest(url, "GET",
              << << ACCEPT, CONTENT_TYPE_JSON >> >>
                \o auth_headers(auth_type, client_id, client_secret),
              extend_pairs(params
                           \o scope_param(scopes)
                           \o auth_params(auth_type, client_id, client_secret)
                           \o (IF redirect_url # None
                               THEN << << Word("redirect_uri"), unwrap(redirect_url) >> >>
                               ELSE <<>>)
                           \o extra_params))

\* variant: redirect_uri ahead of the client credentials
endpoint_request_redirect_first(auth_type, client_id, client_secret, extra_params, redirect_url, scopes, url, params) ==
  HttpRequest(url, "POST",
              << << ACCEPT, CONTENT_TYPE_JSON >>, << CONTENT_TYPE, CONTENT_TYPE_FORMENCODED >> >>
                \o auth_headers(auth_type, client_id, client_secret),
              extend_pairs(params
                           \o scope_param(scopes)
                           \o (IF redirect_url # None
                               THEN << << Word("redirect_uri"), unwrap(redirect_url) >> >>
                               ELSE <<>>)
                           \o auth_params(auth_type, client_id, client_secret)
                           \o extra_params))

\* fn endpoint_request(..) -> HttpRequest
endpoint_request(auth_type, client_id, client_secret, extra_params, redirect_url, scopes, url, params) ==
  HttpRequest(url, "POST",
              << << ACCEPT, CONTENT_TYPE_JSON >>, << CONTENT_TYPE, CONTENT_TYPE_FORMENCODED >> >>
                \o auth_headers(auth_type, client_id, client_secret),
              extend_pairs(params
                           \o scope_param(scopes)
                           \o auth_params(auth_type, client_id, client_secret)
                           \o (IF redirect_url # None
                               THEN << << Word("redirect_uri"), unwrap(redirect_url) >> >>
                               ELSE <<>>)
                           \o extra_params))

(* ------------------------- the request builders ----------------------- *)
NoRequest == HttpRequest("", "", <<>>, <<>>)
Prepared(req) == [ok |-> TRUE, req |-> req, err |-> NoResult]
NotPrepared(msg) == [ok |-> FALSE, req |-> NoRequest, err |-> Other(msg)]

\* what the caller passed to the Client method that made the builder
CODE == Word("c0de")
REFRESH_TOKEN == Word("r3fresh")
USERNAME == Word("user")
PASSWORD == << "p", "&", "w" >>
TOKEN == Word("t0ken")
\* "urn:ietf:params:oauth:grant-type:device_code"
DEVICE_CODE_GRANT ==
  << "urn", ":", "ietf", ":", "params", ":", "oauth", ":", "grant-type", ":", "device_code" >>

\* variant: the request is assembled for an empty URL when none is configured
CodeTokenRequest_prepare_request_unchecked(c, url, b) ==
  Prepared(endpoint_request(
    c.auth_type, c.client_id, c.client_secret, b.extra_params,
    c.redirect_url, None, IF url = None THEN "" ELSE unwrap(url),
    << << Word("grant_type"), Word("authorization_code") >>, << Word("code"), CODE >> >>
      \o (IF b.pkce_verifier # None
          THEN << << Word("code_verifier"), unwrap(b.pkce_verifier) >> >>
          ELSE <<>>)))

CodeTokenRequest_prepare_request(c, url, b) ==
  IF url = None THEN NotPrepared("no token_url provided")
  ELSE Prepared(endpoint_request(
         c.auth_type, c.client_id, c.client_secret, b.extra_params,
         c.redirect_url, None, unwrap(url),
         << << Word("grant_type"), Word("authorization_code") >>, << Word("code"), CODE >> >>
           \o (IF b.pkce_verifier # None
               THEN << << Word("code_verifier"), unwrap(b.pkce_verifier) >> >>
               ELSE <<>>)))

\* variant: the refresh request handing on the client's redirect URL
RefreshTokenRequest_prepare_request_with_redirect(c, url, b) ==
  IF url = None THEN NotPrepared("no token_url provided")
  ELSE Prepared(endpoint_request(
         c.auth_type, c.client_id, c.client_secret, b.extra_params,
         c.redirect_url, Some(b.scopes), unwrap(url),
         << << Word("grant_type"), Word("refresh_token") >>,
            << Word("refresh_token"), REFRESH_TOKEN >> >>))

RefreshTokenRequest_prepare_request(c, url, b) ==
  IF url = None THEN NotPrepared("no token_url provided")
  ELSE Prepared(endpoint_request(
         c.auth_type, c.client_id, c.client_secret, b.extra_params,
         None, Some(b.scopes), unwrap(url),
         << << Word("grant_type"), Word("refresh_token") >>,
            << Word("refresh_token"), REFRESH_TOKEN >> >>))

PasswordTokenRequest_prepare_request(c, url, b) ==
  IF url = None THEN NotPrepared("no token_url provided")
  ELSE Prepared(endpoint_request(
         c.auth_type, c.client_id, c.client_secret, b.extra_params,
         None, Some(b.scopes), unwrap(url),
         << << Word("grant_type"), Word("password") >>,
            << Word("username"), USERNAME >>,
            << Word("password"), PASSWORD >> >>))

ClientCredentialsTokenRequest_prepare_request(c, url, b) ==
  IF url = None THEN NotPrepared("no token_url provided")
  ELSE Prepared(endpoint_request(
         c.auth_type, c.client_id, c.client_secret, b.extra_params,
         None, Some(b.scopes), unwrap(url),
         << << Word("grant_type"), Word("client_credentials") >> >>))

IntrospectRequest_prepare_request(c, b) ==
  IF c.introspect_url = None THEN NotPrepared("no introspect_url provided")
  ELSE Prepared(endpoint_request(
         c.auth_type, c.client_id, c.client_secret, b.extra_params,
         None, None, unwrap(c.introspect_url),
         << << Word("token"), TOKEN >> >>
           \o (IF b.token_type_hint # None
               THEN << << Word("token_type_hint"), unwrap(b.token_type_hint) >> >>
               ELSE <<>>)))

DeviceAuthorizationRequest_prepare_request(c, b) ==
  IF c.device_authorization_url = None
  THEN NotPrepared("no device authorization_url provided")
  ELSE Prepared(endpoint_request(
         c.auth_type, c.client_id, c.client_secret, b.extra_params,
         None, Some(b.scopes), unwrap(c.device_authorization_url), <<>>))

\* variant: the device code is taken from a fixed text, not from the response
DeviceAccessTokenRequest_prepare_request_fixed_code(c, url, b, d) ==
  IF url = None THEN NotPrepared("no token_url provided")
  ELSE Prepared(endpoint_request(
         c.auth_type, c.client_id, c.client_secret, b.extra_params,
         None, None, unwrap(url),
         << << Word("grant_type"), DEVICE_CODE_GRANT >>,
            << Word("device_code"), Word("d3vice") >> >>))

DeviceAccessTokenRequest_prepare_request(c, url, b, d) ==
  IF url = None THEN NotPrepared("no token_url provided")
  ELSE Prepared(endpoint_request(
         c.auth_type, c.client_id, c.client_secret, b.extra_params,
         None, None, unwrap(url),
         << << Word("grant_type"), DEVICE_CODE_GRANT >>,
            << Word("device_code"), d.device_code >> >>))

\* the request builders that send once, named by the Client method making them
OneShot ==
  { "exchange_code", "exchange_refresh_token", "exchange_password",
    "exchange_client_credentials", "introspect", "exchange_device_code" }
\* the builders with an add_scope method
ScopeCarrying ==
  { "exchange_refresh_token", "exchange_password", "exchange_client_credentials",
    "exchange_device_code" }

prepare_request(g, c, url, b, d) ==
  CASE g = "exchange_code" -> CodeTokenRequest_prepare_request(c, url, b)
    [] g = "exchange_refresh_token" -> RefreshTokenRequest_prepare_request(c, url, b)
    [] g = "exchange_password" -> PasswordTokenRequest_prepare_request(c, url, b)
    [] g = "exchange_client_credentials" -> ClientCredentialsTokenRequest_prepare_request(c, url, b)
    [] g = "introspect" -> IntrospectRequest_prepare_request(c, b)
    [] g = "exchange_device_code" -> DeviceAuthorizationRequest_prepare_request(c, b)
    [] g = "exchange_device_access_token" -> DeviceAccessTokenRequest_prepare_request(c, url, b, d)

\* variant: a failed transport call is made once more
http_client_retry(http_request, res) ==
  IF ~ res.ok
  THEN [sent |-> << http_request, http_request >>, result |-> Request("transport_error")]
  ELSE [sent |-> << http_request >>, result |-> endpoint_response(res)]

\* http_client(request).map_err(RequestTokenError::Request).and_then(endpoint_response)
http_client_once(http_request, res) ==
  IF ~ res.ok
  THEN [sent |-> << http_request >>, result |-> Request("transport_error")]
  ELSE [sent |-> << http_request >>, result |-> endpoint_response(res)]

(* ------------------------------ the state ----------------------------- *)
\* The blocking and the suspending polling function, each driving one session
\* of the same DeviceAccessTokenRequest against the same clock and transport.
Modes == {"request", "request_async"}

VARIABLES
  dev_auth_resp,  \* DeviceAuthorizationResponse: device_code, interval, expires_in
  timeout,        \* the caller's timeout: Option<Duration>
  token_url,      \* Option<&TokenUrl> of the client
  clockLog,       \* the readings the injected clock returns, in order
  respLog,        \* the results the transport returns, in order
  turn,           \* the session that runs next
  pc,             \* per session: position in the polling function
  timeout_dt,     \* per session: the deadline computed before the loop
  interval,       \* per session: `let mut interval`
  now,            \* per session: the clock reading of the current iteration
  result,         \* per session: the value the function returned
  events,         \* per session: calls made on the collaborators, in order
  client,         \* the Client the builder borrows its fields from
  grant,          \* the Client method that made the builder
  builder,        \* scopes, extra_params, pkce_verifier, token_type_hint
  stage,          \* "polling", or "building" and then "returned"
  requests,       \* the HttpRequests handed to http_client, in order
  http_response,  \* what http_client returned: Option<Result<HttpResponse, RE>>
  response,       \* the value request / request_async returned
  authorization_request,  \* the AuthorizationRequest Client::authorize_url made
  authorize_url   \* what AuthorizationRequest::url returned: Option<(Url, CsrfToken)>

session_vars ==
  << dev_auth_resp, timeout, clockLog, respLog, turn,
     pc, timeout_dt, interval, now, result, events >>
once_vars == << client, grant, builder, stage, requests, http_response, response >>
authorize_vars == << authorization_request, authorize_url >>
vars == << session_vars, token_url, once_vars, authorize_vars >>

AdvertisedIntervals == {SLOW_DOWN_SECS, DURATION_MAX - SLOW_DOWN_SECS, DURATION_MAX}
ExpiresIns == {2, CHRONO_DURATION_MAX + 1}
CallerTimeouts == {1, 4, DATETIME_MAX + 1}
TOKEN_URL == "http://token"
\* the first reading of the injected clock, and its advance between two
\* readings: the clock strictly advances, so every session meets its deadline
ClockStarts == {1}
ClockSteps == {1, 2}

Event(e, d) == [ev |-> e, d |-> d]
\* a call of http_client: the interval in force and the HttpRequest handed over
SendEvent(d, req) == [ev |-> "send", d |-> d, req |-> req]

\* the number of events of kind e
Count(s, e) == Cardinality({i \in DOMAIN s : s[i].ev = e})

RECURSIVE Select(_, _)
\* the values carried by the events of kind e, in order
Select(s, e) ==
  IF s = <<>> THEN <<>>
  ELSE (IF s[1].ev = e THEN <<s[1].d>> ELSE <<>>) \o Select(Tail(s), e)

\* transport invocations of session m
Sent(m) == Count(events[m], "send")
\* clock readings of session m
Readings(m) == Count(events[m], "start") + Count(events[m], "clock")

Last(s) == s[Len(s)]

\* the k-th reading of the injected clock (time_fn)
ClockInputs(k) ==
  IF k <= Len(clockLog) THEN {clockLog[k]}
  ELSE IF clockLog = <<>> THEN ClockStarts
       ELSE {c \in {Last(clockLog) + step : step \in ClockSteps} : c <= DATETIME_MAX}

\* the k-th result of the transport (http_client)
TransportInputs(k) ==
  IF k <= Len(respLog) THEN {respLog[k]} ELSE Responses

Record(log, k, v) == IF k <= Len(log) THEN log ELSE Append(log, v)

\* the builders that send once
MaxScopes == 2
MaxExtraParams == 2

Scopes == { Word("read"), Word("write") }
ExtraParams ==
  { << Word("scope"), << "a", "&", "b" >> >>,
    << Word("client_secret"), Word("forged") >> }
PKCE_VERIFIER == Word("v3rifier")
TOKEN_TYPE_HINT == Word("access_token")

INTROSPECT_URL == "http://introspect"
DEVICE_AUTHORIZATION_URL == "http://device"
REDIRECT_URL == << "http", ":", "/", "/", "cb" >>

Client(client_id, client_secret, auth_type, redirect_url, introspect_url, device_authorization_url) ==
  [client_id |-> client_id, client_secret |-> client_secret, auth_type |-> auth_type,
   redirect_url |-> redirect_url, introspect_url |-> introspect_url,
   device_authorization_url |-> device_authorization_url]

\* Client::new: Basic authentication, no redirect, introspection or device URL
DefaultClient == Client(<< "a", "b" >>, Some(<< "p", " ", "w" >>), "BasicAuth", None, None, None)

\* the credentials and the endpoints a Client is constructed with
Credentials ==
  { << << "a", "b" >>, None >>,
    << << "a", ":", "b" >>, Some(<< "p", " ", "w" >>) >> }
Endpoints ==
  { << Some(TOKEN_URL), Some(INTROSPECT_URL), Some(DEVICE_AUTHORIZATION_URL) >>,
    << Some(TOKEN_URL), None, None >>,
    << None, Some(INTROSPECT_URL), Some(DEVICE_AUTHORIZATION_URL) >>,
    << None, None, None >> }

\* the clients Client::new and its setters (set_auth_type, set_redirect_url,
\* set_introspection_url, set_device_authorization_url) make
Clients ==
  { [token_url |-> e[1],
     client |-> Client(cr[1], cr[2], auth, redirect, e[2], e[3])] :
      cr \in Credentials, e \in Endpoints,
      auth \in {"BasicAuth", "RequestBody"},
      redirect \in {None, Some(REDIRECT_URL)} }

NewBuilder == [scopes |-> <<>>, extra_params |-> <<>>, pkce_verifier |-> None,
               token_type_hint |-> None]

\* a URL: the text up to the query, and the query
Url(base, query) == [base |-> base, query |-> query]

\* Client::authorize_url was not called
NoAuthorizationRequest ==
  [auth_url |-> Url("", <<>>), client_id |-> <<>>, extra_params |-> <<>>,
   pkce_challenge |-> None, redirect_url |-> None, response_type |-> <<>>,
   scopes |-> <<>>, state |-> <<>>]
NoneAuthorizing ==
  /\ authorization_request = NoAuthorizationRequest
  /\ authorize_url = None

\* no polling session is in use
NonePolling ==
  /\ dev_auth_resp = [device_code |-> Word("d3vice"), interval |-> SLOW_DOWN_SECS, expires_in |-> 2]
  /\ timeout = None
  /\ clockLog = <<>>
  /\ respLog = <<>>
  /\ turn = "request"
  /\ pc = [m \in Modes |-> "start"]
  /\ timeout_dt = [m \in Modes |-> 0]
  /\ interval = [m \in Modes |-> 0]
  /\ now = [m \in Modes |-> 0]
  /\ result = [m \in Modes |-> NoResult]
  /\ events = [m \in Modes |-> <<>>]

\* the device-token builders Client::exchange_device_access_token makes: of a
\* client as constructed, and of a client with body authentication and a
\* redirect URL whose builder was given an extra parameter
DeviceAccessTokenRequests ==
  { [client |-> DefaultClient, builder |-> NewBuilder, device_code |-> Word("d3vice")],
    [client |-> Client(<< "a", ":", "b" >>, Some(<< "p", " ", "w" >>), "RequestBody",
                       Some(REDIRECT_URL), None, None),
     builder |-> [NewBuilder EXCEPT !.extra_params = << << Word("scope"), << "a", "&", "b" >> >> >>],
     device_code |-> << "c", "+", "2" >>] }

Init ==
  /\ NoneAuthorizing
  /\ \E r \in DeviceAccessTokenRequests :
       /\ client = r.client
       /\ builder = r.builder
       /\ dev_auth_resp \in [device_code : {r.device_code}, interval : AdvertisedIntervals,
                              expires_in : ExpiresIns]
  /\ grant = "exchange_device_access_token"
  /\ stage = "polling"
  /\ requests = <<>>
  /\ http_response = None
  /\ response = NoResult
  /\ timeout \in {None} \cup {Some(d) : d \in CallerTimeouts}
  /\ token_url \in {None, Some(TOKEN_URL)}
  /\ clockLog = <<>>
  /\ respLog = <<>>
  /\ turn = "request"
  /\ pc = [m \in Modes |-> "start"]
  /\ timeout_dt = [m \in Modes |-> 0]
  /\ interval = [m \in Modes |-> 0]
  /\ now = [m \in Modes |-> 0]
  /\ result = [m \in Modes |-> NoResult]
  /\ events = [m \in Modes |-> <<>>]

(* ----------------------------- scheduling ----------------------------- *)
Peer(m) == CHOOSE o \in Modes : o # m

\* session m has returned, panicked, or reached the exploration bound
Stopped(m) == pc[m] \in {"done", "panicked"} \/ (pc[m] = "poll" /\ Sent(m) = MaxPolls)

\* the two sessions are independent; they take their steps alternately
Scheduled(m) ==
  /\ stage = "polling"
  /\ turn = m \/ Stopped(Peer(m))
  /\ turn' = Peer(m)
  /\ UNCHANGED << once_vars, authorize_vars >>

(* --------------------------- the polling loop ------------------------- *)
\* let timeout_dt = self.compute_timeout(timeout)?; let mut interval = ...interval();
StartPolling(m) ==
  /\ Scheduled(m)
  /\ pc[m] = "start"
  /\ \E c \in ClockInputs(Readings(m) + 1) :
       LET t == compute_timeout(timeout, dev_auth_resp.expires_in, c)
       IN  /\ clockLog' = Record(clockLog, Readings(m) + 1, c)
           /\ events' = [events EXCEPT ![m] = Append(@, Event("start", c))]
           /\ IF t.ok
              THEN /\ timeout_dt' = [timeout_dt EXCEPT ![m] = t.dt]
                   /\ interval' = [interval EXCEPT ![m] = dev_auth_resp.interval]
                   /\ pc' = [pc EXCEPT ![m] = "loop"]
                   /\ result' = result
              ELSE /\ pc' = [pc EXCEPT ![m] = "done"]
                   /\ result' = [result EXCEPT ![m] = t.err]
                   /\ UNCHANGED << timeout_dt, interval >>
  /\ UNCHANGED << dev_auth_resp, timeout, token_url, now, respLog >>

\* variant: expiry as soon as the deadline is reached
expired_at_deadline(reading, deadline) == reading >= deadline

\* variant: expiry one second late
expired_late(reading, deadline) == reading > deadline + 1

\* if now > timeout_dt
expired(reading, deadline) == reading > deadline

\* let now = (*self.time_fn)(); if now > timeout_dt { break Err(Other(..)) }
CheckExpired(m) ==
  /\ Scheduled(m)
  /\ pc[m] = "loop"
  /\ \E c \in ClockInputs(Readings(m) + 1) :
       /\ clockLog' = Record(clockLog, Readings(m) + 1, c)
       /\ now' = [now EXCEPT ![m] = c]
       /\ events' = [events EXCEPT ![m] = Append(@, Event("clock", c))]
       /\ IF expired(c, timeout_dt[m])
          THEN /\ pc' = [pc EXCEPT ![m] = "done"]
               /\ result' = [result EXCEPT ![m] = Other("Device code expired")]
          ELSE /\ pc' = [pc EXCEPT ![m] = "poll"]
               /\ result' = result
  /\ UNCHANGED << dev_auth_resp, timeout, token_url, timeout_dt, interval, respLog >>

\* variant: a continuation pushes the deadline back by a second
Poll_moving_deadline(m) ==
  /\ Scheduled(m)
  /\ pc[m] = "poll"
  /\ Sent(m) < MaxPolls
  /\ IF ~ prepare_request(grant, client, token_url, builder, dev_auth_resp).ok
     THEN /\ pc' = [pc EXCEPT ![m] = "done"]
          /\ result' = [result EXCEPT ![m] = prepare_request(grant, client, token_url, builder, dev_auth_resp).err]
          /\ UNCHANGED << interval, events, respLog, timeout_dt >>
     ELSE \E res \in TransportInputs(Sent(m) + 1) :
            LET p == process_response(res, interval[m])
            IN  /\ respLog' = Record(respLog, Sent(m) + 1, res)
                /\ events' = [events EXCEPT ![m] = Append(@, SendEvent(interval[m], prepare_request(grant, client, token_url, builder, dev_auth_resp).req))]
                /\ pc' = [pc EXCEPT ![m] = CASE p.tag = "Continue" -> "sleep"
                                              [] p.tag = "Done" -> "done"
                                              [] OTHER -> "panicked"]
                /\ interval' = [interval EXCEPT ![m] =
                                  IF p.tag = "Continue" THEN p.interval ELSE @]
                /\ result' = [result EXCEPT ![m] = IF p.tag = "Done" THEN p.res ELSE @]
                /\ timeout_dt' = [timeout_dt EXCEPT ![m] =
                                    IF p.tag = "Continue" THEN @ + 1 ELSE @]
  /\ UNCHANGED << dev_auth_resp, timeout, token_url, now, clockLog >>

\* match self.process_response(http_client(self.prepare_request()?), interval) {..}
Poll(m) ==
  /\ Scheduled(m)
  /\ pc[m] = "poll"
  /\ Sent(m) < MaxPolls
  /\ IF ~ prepare_request(grant, client, token_url, builder, dev_auth_resp).ok
     THEN /\ pc' = [pc EXCEPT ![m] = "done"]
          /\ result' = [result EXCEPT ![m] = prepare_request(grant, client, token_url, builder, dev_auth_resp).err]
          /\ UNCHANGED << interval, events, respLog >>
     ELSE \E res \in TransportInputs(Sent(m) + 1) :
            LET p == process_response(res, interval[m])
            IN  /\ respLog' = Record(respLog, Sent(m) + 1, res)
                /\ events' = [events EXCEPT ![m] = Append(@, SendEvent(interval[m], prepare_request(grant, client, token_url, builder, dev_auth_resp).req))]
                /\ pc' = [pc EXCEPT ![m] = CASE p.tag = "Continue" -> "sleep"
                                              [] p.tag = "Done" -> "done"
                                              [] OTHER -> "panicked"]
                /\ interval' = [interval EXCEPT ![m] =
                                  IF p.tag = "Continue" THEN p.interval ELSE @]
                /\ result' = [result EXCEPT ![m] = IF p.tag = "Done" THEN p.res ELSE @]
  /\ UNCHANGED << dev_auth_resp, timeout, token_url, timeout_dt, now, clockLog >>

\* variant: the sleep function called twice in an iteration
blocking_sleep_twice(d) ==
  << Event("sleep_call", d), Event("sleep_done", d),
     Event("sleep_call", d), Event("sleep_done", d) >>

\* blocking: sleep_fn(interval) returns when the sleep is over
blocking_sleep(d) == << Event("sleep_call", d), Event("sleep_done", d) >>

\* suspending: sleep_fn(interval) builds a future that is dropped without
\* being awaited, so the sleep it describes never runs
dropped_sleep(d) == << Event("sleep_call", d) >>

Sleep(m, calls) ==
  /\ Scheduled(m)
  /\ pc[m] = "sleep"
  /\ events' = [events EXCEPT ![m] = @ \o calls]
  /\ pc' = [pc EXCEPT ![m] = "loop"]
  /\ UNCHANGED << dev_auth_resp, timeout, token_url, timeout_dt, interval,
                  now, result, clockLog, respLog >>

request_compute_timeout == StartPolling("request")
request_time_fn == CheckExpired("request")
request_http_client == Poll("request")
request_sleep_fn == Sleep("request", blocking_sleep(interval["request"]))

request_async_compute_timeout == StartPolling("request_async")
request_async_time_fn == CheckExpired("request_async")
request_async_http_client == Poll("request_async")
request_async_sleep_fn == Sleep("request_async", dropped_sleep(interval["request_async"]))

Next ==
  \/ request_compute_timeout
  \/ request_time_fn
  \/ request_http_client
  \/ request_sleep_fn
  \/ request_async_compute_timeout
  \/ request_async_time_fn
  \/ request_async_http_client
  \/ request_async_sleep_fn

Spec == Init /\ [][Next]_vars

\* The polling loop under its callers' obligations: time_fn, http_client and
\* sleep_fn return, so a session that can take its next step takes it.
SessionStep(m) ==
  \/ StartPolling(m)
  \/ CheckExpired(m)
  \/ Poll(m)
  \/ Sleep(m, IF m = "request" THEN blocking_sleep(interval[m])
                               ELSE dropped_sleep(interval[m]))
CallsReturn == \A m \in Modes : WF_vars(SessionStep(m))
\* the sessions of one builder that has a token URL, the caller giving no
\* timeout and the device code expiring after two seconds
InitLive ==
  /\ Init
  /\ client = DefaultClient
  /\ token_url # None
  /\ timeout = None
  /\ dev_auth_resp.expires_in = 2
SpecLive == InitLive /\ [][Next]_vars /\ CallsReturn

(* ----------------------- the builders that send once ------------------ *)
\* a builder made by a Client method: add_scope, add_extra_param,
\* set_pkce_verifier and set_token_type_hint fill it, request or
\* request_async consumes it
add_scope ==
  /\ stage = "building"
  /\ grant \in ScopeCarrying
  /\ Len(builder.scopes) < MaxScopes
  /\ \E scope \in Scopes : builder' = [builder EXCEPT !.scopes = Append(@, scope)]
  /\ UNCHANGED << session_vars, token_url, client, grant, stage, requests, http_response, response,
                  authorize_vars >>

add_extra_param ==
  /\ stage = "building"
  /\ grant \in OneShot
  /\ Len(builder.extra_params) < MaxExtraParams
  /\ \E p \in ExtraParams : builder' = [builder EXCEPT !.extra_params = Append(@, p)]
  /\ UNCHANGED << session_vars, token_url, client, grant, stage, requests, http_response, response,
                  authorize_vars >>

set_pkce_verifier ==
  /\ stage = "building"
  /\ grant = "exchange_code"
  /\ builder.pkce_verifier = None
  /\ builder' = [builder EXCEPT !.pkce_verifier = Some(PKCE_VERIFIER)]
  /\ UNCHANGED << session_vars, token_url, client, grant, stage, requests, http_response, response,
                  authorize_vars >>

set_token_type_hint ==
  /\ stage = "building"
  /\ grant = "introspect"
  /\ builder.token_type_hint = None
  /\ builder' = [builder EXCEPT !.token_type_hint = Some(TOKEN_TYPE_HINT)]
  /\ UNCHANGED << session_vars, token_url, client, grant, stage, requests, http_response, response,
                  authorize_vars >>

\* http_client(self.prepare_request()?).map_err(Request).and_then(endpoint_response),
\* the transport answering with one of `answers`
Send(answers) ==
  /\ stage = "building"
  /\ grant \in OneShot
  /\ stage' = "returned"
  /\ LET p == prepare_request(grant, client, token_url, builder, dev_auth_resp)
     IN  IF ~ p.ok
         THEN /\ response' = p.err
              /\ UNCHANGED << requests, http_response >>
         ELSE \E res \in answers :
                LET o == http_client_once(p.req, res)
                IN  /\ requests' = o.sent
                    /\ http_response' = Some(res)
                    /\ response' = o.result
  /\ UNCHANGED << session_vars, token_url, client, grant, builder, authorize_vars >>

\* what the transport may return to a request that is sent once
Answers ==
  { TransportErr,
    HttpOk(STATUS_OK, CONTENT_TYPE_JSON, TokenBody),
    HttpOk(400, CONTENT_TYPE_JSON, ErrorBody("invalid_grant")) }

request == Send(Answers)
request_async == Send(Answers)

\* the device-token builders polling with no caller timeout, or the builders
\* that send once
InitClient ==
  \/ Init /\ timeout = None /\ dev_auth_resp.interval = SLOW_DOWN_SECS
  \/ /\ NonePolling
     /\ \E c \in Clients : token_url = c.token_url /\ client = c.client
     /\ NoneAuthorizing
     /\ grant \in OneShot
     /\ builder = NewBuilder
     /\ stage = "building"
     /\ requests = <<>>
     /\ http_response = None
     /\ response = NoResult

NextClient ==
  \/ Next
  \/ add_scope
  \/ add_extra_param
  \/ set_pkce_verifier
  \/ set_token_type_hint
  \/ request
  \/ request_async

\* every request builder of a Client
SpecClient == InitClient /\ [][NextClient]_vars

(* ------------------------ the decoder on its own ---------------------- *)
CT_JSON_SEQ == CONTENT_TYPE_JSON \o << "-", "s", "e", "q" >>
CT_JSON_OBS == CONTENT_TYPE_JSON \o << ";", "c", "h", "a", "r", "s", "e", "t", "=", NON_ASCII >>
BothBody ==
  << "{", "error", ":", "invalid_grant", "access_token", ":", "tok",
     "token_type", ":", "Bearer", "}" >>

StatusCodes == {STATUS_OK, 201, 400}
ContentTypes == {NoHeader, CONTENT_TYPE_JSON, CT_JSON_CHARSET, CT_HTML, CT_JSON_SEQ, CT_JSON_OBS}
Bodies == {<<>>, TokenBody, ErrorBody("invalid_grant"), GarbageBody, BothBody}

\* every response a server may give
HttpResponses ==
  {HttpOk(s, ct, body) : s \in StatusCodes, ct \in ContentTypes, body \in Bodies}

decode == Send(HttpResponses)
decode_async == Send(HttpResponses)

InitDecode ==
  /\ NonePolling
  /\ token_url = Some(TOKEN_URL)
  /\ NoneAuthorizing
  /\ client = DefaultClient
  /\ grant \in OneShot
  /\ builder = NewBuilder
  /\ stage = "building"
  /\ requests = <<>>
  /\ http_response = None
  /\ response = NoResult

NextDecode ==
  \/ decode
  \/ decode_async

\* a request sent once, against every response of a server
SpecDecode == InitDecode /\ [][NextDecode]_vars

(* ------------------------- the authorization URL ---------------------- *)
AUTH_URL == "http://auth"
\* the authorize endpoint, without and with a query of its own
AuthUrls == { Url(AUTH_URL, <<>>), Url(AUTH_URL, << "tenant", "=", "t1" >>) }
\* what state_fn returns
States == { Word("st4te"), << "s", "=", "t" >> }
\* scopes of an authorization request: also the empty text
AuthorizeScopes == Scopes \cup { <<>> }
PKCE_CHALLENGE == [challenge |-> Word("ch4llenge"), method |-> Word("S256")]

\* variant: the scope goes ahead of the redirect URI
url_scope_first(r) ==
  LET scopes == Join(r.scopes, << " " >>)
      pairs == << << Word("response_type"), r.response_type >>,
                  << Word("client_id"), r.client_id >>,
                  << Word("state"), r.state >> >>
               \o (IF r.pkce_challenge # None
                   THEN << << Word("code_challenge"), unwrap(r.pkce_challenge).challenge >>,
                           << Word("code_challenge_method"), unwrap(r.pkce_challenge).method >> >>
                   ELSE <<>>)
               \o (IF scopes # <<>> THEN << << Word("scope"), scopes >> >> ELSE <<>>)
               \o (IF r.redirect_url # None
                   THEN << << Word("redirect_uri"), unwrap(r.redirect_url) >> >>
                   ELSE <<>>)
      first == (IF r.auth_url.query # <<>> THEN r.auth_url.query \o << "&" >> ELSE <<>>)
               \o extend_pairs(pairs)
  IN  << Url(r.auth_url.base,
             first \o (IF r.extra_params # <<>>
                       THEN << "&" >> \o extend_pairs(r.extra_params) ELSE <<>>)),
         r.state >>

\* AuthorizationRequest::url: the (Url, CsrfToken) pair
url(r) ==
  LET scopes == Join(r.scopes, << " " >>)
      pairs == << << Word("response_type"), r.response_type >>,
                  << Word("client_id"), r.client_id >>,
                  << Word("state"), r.state >> >>
               \o (IF r.pkce_challenge # None
                   THEN << << Word("code_challenge"), unwrap(r.pkce_challenge).challenge >>,
                           << Word("code_challenge_method"), unwrap(r.pkce_challenge).method >> >>
                   ELSE <<>>)
               \o (IF r.redirect_url # None
                   THEN << << Word("redirect_uri"), unwrap(r.redirect_url) >> >>
                   ELSE <<>>)
               \o (IF scopes # <<>> THEN << << Word("scope"), scopes >> >> ELSE <<>>)
      first == (IF r.auth_url.query # <<>> THEN r.auth_url.query \o << "&" >> ELSE <<>>)
               \o extend_pairs(pairs)
  IN  << Url(r.auth_url.base,
             first \o (IF r.extra_params # <<>>
                       THEN << "&" >> \o extend_pairs(r.extra_params) ELSE <<>>)),
         r.state >>

Authorizing == stage = "authorizing"

AuthorizationRequest_add_scope ==
  /\ Authorizing
  /\ Len(authorization_request.scopes) < MaxScopes
  /\ \E scope \in AuthorizeScopes :
       authorization_request' = [authorization_request EXCEPT !.scopes = Append(@, scope)]
  /\ UNCHANGED << session_vars, token_url, once_vars, authorize_url >>

AuthorizationRequest_add_extra_param ==
  /\ Authorizing
  /\ Len(authorization_request.extra_params) < MaxExtraParams
  /\ \E p \in ExtraParams :
       authorization_request' = [authorization_request EXCEPT !.extra_params = Append(@, p)]
  /\ UNCHANGED << session_vars, token_url, once_vars, authorize_url >>

use_implicit_flow ==
  /\ Authorizing
  /\ authorization_request.response_type = Word("code")
  /\ authorization_request' = [authorization_request EXCEPT !.response_type = Word("token")]
  /\ UNCHANGED << session_vars, token_url, once_vars, authorize_url >>

set_pkce_challenge ==
  /\ Authorizing
  /\ authorization_request.pkce_challenge = None
  /\ authorization_request' =
       [authorization_request EXCEPT !.pkce_challenge = Some(PKCE_CHALLENGE)]
  /\ UNCHANGED << session_vars, token_url, once_vars, authorize_url >>

AuthorizationRequest_set_redirect_url ==
  /\ Authorizing
  /\ authorization_request.redirect_url = None
  /\ authorization_request' =
       [authorization_request EXCEPT !.redirect_url = Some(REDIRECT_URL)]
  /\ UNCHANGED << session_vars, token_url, once_vars, authorize_url >>

AuthorizationRequest_url ==
  /\ Authorizing
  /\ stage' = "returned"
  /\ authorize_url' = Some(url(authorization_request))
  /\ UNCHANGED << session_vars, token_url, client, grant, builder, requests, http_response,
                  response, authorization_request >>

\* Client::authorize_url(state_fn)
InitAuthorize ==
  /\ NonePolling
  /\ token_url = Some(TOKEN_URL)
  /\ \E redirect \in {None, Some(REDIRECT_URL)} :
       client = Client(<< "a", ":", "b" >>, None, "BasicAuth", redirect, None, None)
  /\ grant = "authorize_url"
  /\ builder = NewBuilder
  /\ stage = "authorizing"
  /\ requests = <<>>
  /\ http_response = None
  /\ response = NoResult
  /\ \E u \in AuthUrls, st \in States :
       authorization_request =
         [auth_url |-> u, client_id |-> client.client_id, extra_params |-> <<>>,
          pkce_challenge |-> None, redirect_url |-> client.redirect_url,
          response_type |-> Word("code"), scopes |-> <<>>, state |-> st]
  /\ authorize_url = None

NextAuthorize ==
  \/ AuthorizationRequest_add_scope
  \/ AuthorizationRequest_add_extra_param
  \/ use_implicit_flow
  \/ set_pkce_challenge
  \/ AuthorizationRequest_set_redirect_url
  \/ AuthorizationRequest_url

\* the builder of the authorization URL
SpecAuthorize == InitAuthorize /\ [][NextAuthorize]_vars

(* ------------------------- reading a session -------------------------- *)
\* the durations sleep_fn was called with, and the sleeps that ran to the end
SleepCalls(m) == Select(events[m], "sleep_call")
Slept(m) == Select(events[m], "sleep_done")

\* the response the send event at position i of session m received
ResponseOf(m, i) == respLog[Cardinality({j \in 1..i : events[m][j].ev = "send"})]

Sends(m) == {i \in DOMAIN events[m] : events[m][i].ev = "send"}
ClockReads(m) == {i \in DOMAIN events[m] : events[m][i].ev = "clock"}

IsTransportFailure(res) == ~ res.ok
IsPending(res) == res.ok /\ endpoint_response(res) = ServerResponse("authorization_pending")
IsSlowDown(res) == res.ok /\ endpoint_response(res) = ServerResponse("slow_down")
IsSuccess(res) == res.ok /\ endpoint_response(res).kind = "Ok"
IsFatalServerError(res) ==
  /\ res.ok
  /\ endpoint_response(res).kind = "ServerResponse"
  /\ endpoint_response(res).val \notin {"authorization_pending", "slow_down"}

Expired == Other("Device code expired")

\* the clock reading compute_timeout took
StartOf(m) == events[m][1].d

(* ------------------------------- C1 ----------------------------------- *)
C1_Scenario(m) ==
  /\ dev_auth_resp.interval = 5
  /\ Sent(m) = 4
  /\ IsPending(respLog[1])
  /\ IsPending(respLog[2])
  /\ IsSlowDown(respLog[3])
  /\ IsSuccess(respLog[4])

\* C1: the blocking request, started at interval 5s and answered
\* authorization_pending, authorization_pending, slow_down, success, has called
\* sleep_fn with exactly 5s, 5s, 10s (each sleep run to its end), has returned
\* Ok(token), and its last collaborator call is the fourth request: nothing is
\* sent and nothing sleeps after the success.
C1_SleepsFiveFiveTen ==
  C1_Scenario("request") =>
    /\ SleepCalls("request") = << 5, 5, 10 >>
    /\ Slept("request") = << 5, 5, 10 >>
    /\ pc["request"] = "done"
    /\ result["request"] = Ok(Field(respLog[4].body, "access_token"))
    /\ Sent("request") = 4
    /\ Last(events["request"]).ev = "send"

C1_Witness == C1_Scenario("request") /\ pc["request"] = "done"

(* ------------------------------- C2 ----------------------------------- *)
\* a clock reading that ended the session with "Device code expired": it is
\* the session's last collaborator call, so no request follows it
EndsExpired(m, i) ==
  /\ i = Len(events[m])
  /\ pc[m] = "done"
  /\ result[m] = Expired

\* C2 as stated: a loop reading at which the deadline is reached (reading >=
\* deadline) ends the session with Other("Device code expired") and no request
\* is sent in that iteration or later.
C2_ExpiresWhenReached ==
  \A m \in Modes : \A i \in ClockReads(m) :
     events[m][i].d >= timeout_dt[m] => EndsExpired(m, i)

\* C2 amended: a loop reading strictly later than the deadline ends the
\* session with Other("Device code expired") and no request is sent in that
\* iteration or later.
C2_ExpiresWhenExceeded ==
  \A m \in Modes : \A i \in ClockReads(m) :
     events[m][i].d > timeout_dt[m] => EndsExpired(m, i)

C2_Witness ==
  \E m \in Modes :
     /\ Sent(m) >= 1
     /\ result[m] = Expired
     /\ Last(events[m]).ev = "clock"
     /\ Last(events[m]).d > timeout_dt[m]

(* ------------------------------- C3 ----------------------------------- *)
Min(a, b) == IF a <= b THEN a ELSE b

\* a session that got past compute_timeout
Polling(m) == pc[m] \in {"loop", "poll", "sleep", "panicked"} \/ Sent(m) > 0 \/ result[m] = Expired

\* C3 as stated: the deadline is start + min(caller_timeout, expires_in).
C3_DeadlineIsMin ==
  \A m \in Modes :
     Polling(m) =>
       timeout_dt[m] = StartOf(m) +
          (IF timeout = None THEN dev_auth_resp.expires_in
           ELSE Min(unwrap(timeout), dev_auth_resp.expires_in))

\* the duration the caller's timeout or, without one, expires_in gives
ChosenTimeout == IF timeout = None THEN dev_auth_resp.expires_in ELSE unwrap(timeout)

\* C3 amended: the deadline is start + caller_timeout when the caller gives a
\* timeout (also one larger than expires_in) and start + expires_in otherwise;
\* a loop reading ends the session as expired exactly when it is later than
\* that deadline. When that duration or instant is not representable the
\* session ends with Other before any request.
C3_DeadlineIsCallerElseExpiresIn ==
  \A m \in Modes :
     pc[m] # "start" =>
       IF ChosenTimeout <= CHRONO_DURATION_MAX /\ StartOf(m) + ChosenTimeout <= DATETIME_MAX
       THEN /\ timeout_dt[m] = StartOf(m) + ChosenTimeout
            /\ \A i \in ClockReads(m) :
                 (events[m][i].d > StartOf(m) + ChosenTimeout) <=> EndsExpired(m, i)
       ELSE /\ pc[m] = "done"
            /\ result[m].kind = "Other"
            /\ result[m] # Expired
            /\ Sent(m) = 0

C3_Witness ==
  \E m \in Modes :
     /\ timeout # None
     /\ unwrap(timeout) > dev_auth_resp.expires_in
     /\ result[m] = Expired
     /\ Last(events[m]).d > StartOf(m) + dev_auth_resp.expires_in + 1

(* ------------------------------- C4 ----------------------------------- *)
\* session m sends a request in this step and the transport fails
TransportFails(m) == Sent(m)' = Sent(m) + 1 /\ IsTransportFailure(respLog'[Sent(m)'])

Doubled(d) == IF 2 * d <= DURATION_MAX THEN 2 * d ELSE d

\* C4: a transport failure doubles the interval, or keeps it when the double
\* is not representable, and the session goes on to sleep; no session ever
\* returns Request(transport_error).
C4_TransportFailureIsTransient ==
  [][ \A m \in Modes :
        /\ result'[m].kind # "Request"
        /\ TransportFails(m) =>
             /\ pc'[m] = "sleep"
             /\ interval'[m] = Doubled(interval[m])
             /\ result'[m] = NoResult ]_vars

C4_Witness ==
  \E m \in Modes :
     /\ Sent(m) = 3
     /\ \A k \in 1..3 : IsTransportFailure(respLog[k])
     /\ pc[m] = "loop"
     /\ interval[m] = dev_auth_resp.interval
     /\ SleepCalls(m) = << interval[m], interval[m], interval[m] >>

(* ------------------------------- C5 ----------------------------------- *)
\* the interval in force after the send event at position i of session m:
\* the duration of the sleep_fn call that follows it, or the current interval
IntervalAfter(m, i) ==
  IF i < Len(events[m]) THEN events[m][i + 1].d ELSE interval[m]

\* session m went on to sleep after the send event at position i
ContinuedAfter(m, i) ==
  IF i < Len(events[m]) THEN events[m][i + 1].ev = "sleep_call" ELSE pc[m] = "sleep"

SlowDowns(m) == Cardinality({i \in Sends(m) : IsSlowDown(ResponseOf(m, i))})
Failures(m) == Cardinality({i \in Sends(m) : IsTransportFailure(ResponseOf(m, i))})

\* C5: every slow_down response continues polling with the interval 5 seconds
\* longer, and after k slow_down responses and no transport failure the
\* interval is the advertised interval plus 5k seconds.
C5_SlowDownAddsFive ==
  \A m \in Modes :
     /\ \A i \in Sends(m) :
          IsSlowDown(ResponseOf(m, i)) =>
            /\ ContinuedAfter(m, i)
            /\ IntervalAfter(m, i) = events[m][i].d + 5
     /\ (Sent(m) > 0 /\ Failures(m) = 0) =>
          interval[m] = dev_auth_resp.interval + 5 * SlowDowns(m)

(* ------------------------------- C6 ----------------------------------- *)
\* C6: every authorization_pending response continues polling, and sleep_fn
\* is then called with the interval that was in force when the request was
\* sent.
C6_PendingKeepsInterval ==
  \A m \in Modes : \A i \in Sends(m) :
     IsPending(ResponseOf(m, i)) =>
       /\ ContinuedAfter(m, i)
       /\ IntervalAfter(m, i) = events[m][i].d

C6_Witness ==
  \E m \in Modes : \E i \in Sends(m) :
     /\ IsPending(ResponseOf(m, i))
     /\ i < Len(events[m])
     /\ events[m][i + 1] = Event("sleep_call", events[m][i].d)
     /\ events[m][i].d # dev_auth_resp.interval

(* ------------------------------- C7 ----------------------------------- *)
\* C7: a decoded success ends the session with Ok(that token), a decoded
\* server error other than authorization_pending and slow_down ends it with
\* ServerResponse(that error), and that request is the session's last
\* collaborator call: no request and no sleep_fn call follows.
C7_TerminalOutcomes ==
  \A m \in Modes : \A i \in Sends(m) :
     /\ IsSuccess(ResponseOf(m, i)) =>
          /\ i = Len(events[m])
          /\ pc[m] = "done"
          /\ result[m] = Ok(Field(ResponseOf(m, i).body, "access_token"))
     /\ IsFatalServerError(ResponseOf(m, i)) =>
          /\ i = Len(events[m])
          /\ pc[m] = "done"
          /\ result[m] = ServerResponse(Field(ResponseOf(m, i).body, "error"))

C7_Witness ==
  \A m \in Modes :
     /\ Sent(m) = 3
     /\ IsFatalServerError(respLog[3])
     /\ result[m] = ServerResponse("access_denied")
     /\ Len(SleepCalls(m)) = 2

(* ------------------------------- C8 ----------------------------------- *)
\* C8: in both modes every clock reading of the loop but the first directly
\* follows a completed sleep, and the request sent after that reading uses
\* the interval that was slept.
C8_SleepCompletesBeforeNextIteration ==
  \A m \in Modes : \A i \in ClockReads(m) :
     i > 2 =>
       /\ events[m][i - 1].ev = "sleep_done"
       /\ (i < Len(events[m]) => events[m][i + 1].d = events[m][i - 1].d)

(* ------------------------------- C9 ----------------------------------- *)
\* the interval values a session went through
Intervals(m) == Select(events[m], "send") \o << interval[m] >>

\* C9: once both sessions have stopped on the same device response, clock
\* readings and transport results, they went through the same intervals, sent
\* the same number of requests, applied the same sleeps and returned the same
\* result.
C9_ModesEquivalent ==
  (Stopped("request") /\ Stopped("request_async")) =>
    /\ Intervals("request") = Intervals("request_async")
    /\ Sent("request") = Sent("request_async")
    /\ Slept("request") = Slept("request_async")
    /\ pc["request"] = pc["request_async"]
    /\ result["request"] = result["request_async"]

(* ------------------------------- C10 ---------------------------------- *)
\* C10: no polling step panics: every session is polling with a representable
\* interval or has returned a result.
C10_NoPanic ==
  \A m \in Modes :
     /\ pc[m] # "panicked"
     /\ interval[m] \in 0..DURATION_MAX
     /\ pc[m] = "done" <=> result[m] # NoResult

(* ---------------------- reading a request sent once ------------------- *)
\* request / request_async returned after the transport answered with an
\* HTTP response
Answered ==
  stage = "returned" /\ http_response # None /\ unwrap(http_response).ok
Answer == unwrap(http_response)

\* the decoder stopped at the Content-Type check
RejectedContentType == response = Other("Unexpected response Content-Type")

\* C11: a response whose status is not 200 decodes to Other when its body is
\* empty, to ServerResponse(error) when the body parses as the server error
\* type, and otherwise to Parse carrying exactly the bytes of the body; it
\* never decodes to a success value, whatever the body and the Content-Type.
C11_ErrorStatusDecoding ==
  (Answered /\ Answer.status_code # STATUS_OK) =>
    /\ response.kind # "Ok"
    /\ Answer.body = <<>> => response.kind = "Other"
    /\ (Answer.body # <<>> /\ ParsesAsTE(Answer.body)) =>
         response = ServerResponse(Field(Answer.body, "error"))
    /\ (Answer.body # <<>> /\ ~ ParsesAsTE(Answer.body)) =>
         (response.kind = "Parse" /\ response.body = Answer.body)

\* a token response under status 400 with a JSON Content-Type is a parse
\* failure that carries the token response
C11_Witness ==
  /\ Answered
  /\ Answer = HttpOk(400, CONTENT_TYPE_JSON, TokenBody)
  /\ response.kind = "Parse"
  /\ response.body = TokenBody

\* the media type of a Content-Type value: the text before the first ';',
\* in lower case
MediaType(v) ==
  LET semi == {i \in DOMAIN v : v[i] = ";"}
      end == IF semi = {} THEN Len(v)
             ELSE (CHOOSE i \in semi : \A j \in semi : i <= j) - 1
  IN  to_lowercase(SubSeq(v, 1, end))

\* C12 as stated: on status 200 a present Content-Type is accepted exactly
\* when its media type is application/json.
C12_AcceptedIffMediaTypeIsJson ==
  (Answered /\ Answer.status_code = STATUS_OK /\ Answer.content_type # NoHeader) =>
    (~ RejectedContentType <=> MediaType(Answer.content_type) = CONTENT_TYPE_JSON)

LowerCase(c) == IF c \in DOMAIN UpperToLower THEN UpperToLower[c] ELSE c

\* the value is visible ASCII and begins, in any letter case, with application/json
BeginsWithJson(v) ==
  /\ \A i \in DOMAIN v : v[i] # NON_ASCII
  /\ Len(v) >= Len(CONTENT_TYPE_JSON)
  /\ \A i \in DOMAIN CONTENT_TYPE_JSON : LowerCase(v[i]) = CONTENT_TYPE_JSON[i]

\* C12: on status 200 a missing Content-Type is accepted; a present one is
\* accepted exactly when its value is visible ASCII and begins, in any letter
\* case, with application/json; every other value gives Other whatever the
\* body is.
C12_AcceptedIffBeginsWithJson ==
  (Answered /\ Answer.status_code = STATUS_OK) =>
    /\ Answer.content_type = NoHeader => ~ RejectedContentType
    /\ Answer.content_type # NoHeader =>
         (~ RejectedContentType <=> BeginsWithJson(Answer.content_type))
    /\ RejectedContentType => response.kind = "Other"

\* a token under application/json-seq is decoded to a success value
C12_Witness ==
  /\ Answered
  /\ Answer = HttpOk(STATUS_OK, CT_JSON_SEQ, TokenBody)
  /\ response.kind = "Ok"

\* C13: a status-200 response that passed the Content-Type check decodes to
\* Other when its body is empty, to the success value when the body parses
\* as the success type, and otherwise to Parse carrying exactly the bytes of
\* the body; it never decodes to ServerResponse.
C13_SuccessStatusDecoding ==
  (Answered /\ Answer.status_code = STATUS_OK /\ ~ RejectedContentType) =>
    /\ response.kind # "ServerResponse"
    /\ Answer.body = <<>> => response.kind = "Other"
    /\ (Answer.body # <<>> /\ ParsesAsDO(Answer.body)) =>
         response = Ok(Field(Answer.body, "access_token"))
    /\ (Answer.body # <<>> /\ ~ ParsesAsDO(Answer.body)) =>
         (response.kind = "Parse" /\ response.body = Answer.body)

\* a well-formed error document under status 200 is a parse failure
C13_Witness ==
  /\ Answered
  /\ Answer = HttpOk(STATUS_OK, CT_JSON_CHARSET, ErrorBody("invalid_grant"))
  /\ response.kind = "Parse"
  /\ response.body = ErrorBody("invalid_grant")

\* the endpoint URL the builder made by Client method g sends to
EndpointOf(g) ==
  CASE g = "introspect" -> client.introspect_url
    [] g = "exchange_device_code" -> client.device_authorization_url
    [] OTHER -> token_url

\* C14: when the endpoint URL of a builder is not configured, its
\* request / request_async returns Other and never invokes the transport; a
\* device polling session also never calls the sleep function.
C14_MissingUrlSendsNothing ==
  EndpointOf(grant) = None =>
    /\ stage = "returned" =>
         (response.kind = "Other" /\ requests = <<>> /\ http_response = None)
    /\ stage = "polling" =>
         \A m \in Modes :
           /\ Sent(m) = 0
           /\ SleepCalls(m) = <<>>
           /\ pc[m] # "sleep"
           /\ pc[m] = "done" => result[m].kind = "Other"

\* both polling functions reached the request, found no token URL and
\* returned; and nothing is left to run
C14_Witness ==
  /\ stage = "polling"
  /\ token_url = None
  /\ \A m \in Modes :
       /\ pc[m] = "done"
       /\ result[m] = Other("no token_url provided")
       /\ Count(events[m], "clock") = 1
       /\ Sent(m) = 0

\* C15: a builder that sends once, with its endpoint URL configured, invokes
\* the transport exactly once; a transport failure is returned as
\* Request(transport_error) without decoding, and a transport success is
\* given to the decoder, whose result is returned as it is.
C15_SentExactlyOnce ==
  (stage = "returned" /\ EndpointOf(grant) # None) =>
    /\ Len(requests) = 1
    /\ http_response # None
    /\ ~ unwrap(http_response).ok => response = Request("transport_error")
    /\ unwrap(http_response).ok => response = endpoint_response(unwrap(http_response))

\* the transport failed on an introspection request, which was not repeated
C15_Witness ==
  /\ stage = "returned"
  /\ grant = "introspect"
  /\ http_response = Some(TransportErr)
  /\ Len(requests) = 1
  /\ response.kind = "Request"

(* ----------------------- reading an assembled request ----------------- *)
\* a request was assembled and handed to the transport: by a builder that
\* sends once, or by a polling session, which assembles the same request for
\* every poll
Assembled ==
  \/ stage = "returned" /\ requests # <<>>
  \/ stage = "polling" /\ \E m \in Modes : Sent(m) > 0
\* the HttpRequests session m handed to http_client, in order
SentRequests(m) ==
  LET RECURSIVE From(_)
      From(i) == IF i > Len(events[m]) THEN <<>>
                 ELSE (IF events[m][i].ev = "send" THEN << events[m][i].req >> ELSE <<>>)
                        \o From(i + 1)
  IN  From(1)
TheRequest ==
  IF stage = "polling"
  THEN SentRequests(CHOOSE m \in Modes : Sent(m) > 0)[1]
  ELSE requests[1]

\* the form fields a server reads from the body, in order
Form == parse_pairs(TheRequest.body)
\* the form fields ahead of the caller's extra parameters
EngineForm == SubSeq(Form, 1, Len(Form) - Len(builder.extra_params))
\* the second components of the pairs whose first component is k, in order
Lookup(pairs, k) ==
  LET RECURSIVE From(_)
      From(i) == IF i > Len(pairs) THEN <<>>
                 ELSE (IF pairs[i][1] = k THEN << pairs[i][2] >> ELSE <<>>) \o From(i + 1)
  IN  From(1)
\* the values of the fields called n, in order
Values(fields, n) == Lookup(fields, Word(n))

\* the value reads, between single spaces, as the scopes in insertion order
IsScopeList(v, scopes) == Split(v, " ") = scopes

\* C16 as stated: the body of a scope-carrying builder holds exactly one
\* scope parameter, the scopes joined by single spaces in insertion order,
\* and no scope parameter when no scope was added.
C16_OneScopeParameter ==
  (Assembled /\ grant \in ScopeCarrying) =>
    IF builder.scopes = <<>>
    THEN Values(Form, "scope") = <<>>
    ELSE /\ Len(Values(Form, "scope")) = 1
         /\ IsScopeList(Values(Form, "scope")[1], builder.scopes)

\* C16: ahead of the caller's extra parameters, the body of a scope-carrying
\* builder holds exactly one scope parameter, the scopes joined by single
\* spaces in insertion order, and no scope parameter when no scope was added.
C16_EngineAddsOneScopeParameter ==
  (Assembled /\ grant \in ScopeCarrying) =>
    IF builder.scopes = <<>>
    THEN Values(EngineForm, "scope") = <<>>
    ELSE /\ Len(Values(EngineForm, "scope")) = 1
         /\ IsScopeList(Values(EngineForm, "scope")[1], builder.scopes)

\* two scopes were added, and an extra parameter called scope after them
C16_Witness ==
  /\ Assembled
  /\ grant = "exchange_password"
  /\ builder.scopes = << Word("write"), Word("read") >>
  /\ Values(Form, "scope") = << << "write", " ", "read" >>, << "a", "&", "b" >> >>

\* the values of the headers called n, in order
Headers(n) == Lookup(TheRequest.headers, n)

\* the user-id and the password a server reads from a Basic Authorization
\* value: the base64 text decoded, cut at the colons, each part url-decoded
BasicParts(v) ==
  LET parts == Split(base64_decode(SubSeq(v, 3, Len(v))), ":")
  IN  [i \in DOMAIN parts |-> byte_parse(parts[i])]
IsBasic(v) == Len(v) >= 2 /\ v[1] = "Basic" /\ v[2] = " "

SecretOrEmpty == IF client.client_secret # None THEN unwrap(client.client_secret) ELSE <<>>

\* C17: credentials travel on exactly one channel. With BasicAuth the request
\* has the header Authorization: Basic base64(urlencode(id) ":" urlencode(secret))
\* and the engine adds no client_id or client_secret form field; with
\* RequestBody there is no Authorization header, and client_id, and
\* client_secret when the client has one, are form fields.
C17_OneCredentialChannel ==
  Assembled =>
    /\ client.auth_type = "BasicAuth" =>
         /\ Len(Headers(AUTHORIZATION)) = 1
         /\ IsBasic(Headers(AUTHORIZATION)[1])
         /\ BasicParts(Headers(AUTHORIZATION)[1]) = << client.client_id, SecretOrEmpty >>
         /\ Values(EngineForm, "client_id") = <<>>
         /\ Values(EngineForm, "client_secret") = <<>>
    /\ client.auth_type = "RequestBody" =>
         /\ Headers(AUTHORIZATION) = <<>>
         /\ Values(EngineForm, "client_id") = << client.client_id >>
         /\ client.client_secret # None =>
              Values(EngineForm, "client_secret") = << unwrap(client.client_secret) >>

\* an id with a colon and a secret with a space, sent as Basic credentials
C17_Witness ==
  /\ Assembled
  /\ client.auth_type = "BasicAuth"
  /\ client.client_id = << "a", ":", "b" >>
  /\ client.client_secret = Some(<< "p", " ", "w" >>)
  /\ Headers(AUTHORIZATION) =
       << << "Basic", " " >> \o base64_encode(<< "a", "%", "3", "A", "b", ":", "p", "+", "w" >>) >>

\* C18 as stated: without a client secret, BasicAuth still sets the header,
\* encoding the id, a colon and the empty string, and under RequestBody the
\* body has client_id and no client_secret field at all.
C18_NoSecretNoSecretField ==
  (Assembled /\ client.client_secret = None) =>
    /\ client.auth_type = "BasicAuth" =>
         /\ Len(Headers(AUTHORIZATION)) = 1
         /\ BasicParts(Headers(AUTHORIZATION)[1]) = << client.client_id, <<>> >>
    /\ client.auth_type = "RequestBody" =>
         /\ Values(EngineForm, "client_id") = << client.client_id >>
         /\ Values(Form, "client_secret") = <<>>

\* C18: without a client secret, BasicAuth still sets the header, encoding
\* the id, a colon and the empty string, and under RequestBody the body has
\* client_id and, ahead of the caller's extra parameters, no client_secret
\* field at all.
C18_NoSecretNoEngineSecretField ==
  (Assembled /\ client.client_secret = None) =>
    /\ client.auth_type = "BasicAuth" =>
         /\ Len(Headers(AUTHORIZATION)) = 1
         /\ BasicParts(Headers(AUTHORIZATION)[1]) = << client.client_id, <<>> >>
    /\ client.auth_type = "RequestBody" =>
         /\ Values(EngineForm, "client_id") = << client.client_id >>
         /\ Values(EngineForm, "client_secret") = <<>>

\* a client without secret authenticating in the body, the caller having
\* added client_secret as an extra parameter
C18_Witness ==
  /\ Assembled
  /\ client.client_secret = None
  /\ client.auth_type = "RequestBody"
  /\ Values(Form, "client_id") = << client.client_id >>
  /\ Values(Form, "client_secret") = << Word("forged") >>

\* the names of the fields, in order
Names(fields) == [i \in DOMAIN fields |-> fields[i][1][1]]

\* the names of the parameters that belong to the grant of the builder
GrantNames ==
  CASE grant = "exchange_code" ->
         << "grant_type", "code" >>
           \o (IF builder.pkce_verifier # None THEN << "code_verifier" >> ELSE <<>>)
    [] grant = "exchange_refresh_token" -> << "grant_type", "refresh_token" >>
    [] grant = "exchange_password" -> << "grant_type", "username", "password" >>
    [] grant = "exchange_client_credentials" -> << "grant_type" >>
    [] grant = "introspect" ->
         << "token" >>
           \o (IF builder.token_type_hint # None THEN << "token_type_hint" >> ELSE <<>>)
    [] grant = "exchange_device_code" -> <<>>
    [] grant = "exchange_device_access_token" -> << "grant_type", "device_code" >>

\* the redirect URL the builder was given: only exchange_code hands it on
RedirectGiven ==
  IF grant = "exchange_code" THEN client.redirect_url ELSE None

\* C19: the body is one ordered list: the parameters of the grant, then
\* scope if there is any, then client_id and client_secret under RequestBody,
\* then redirect_uri if set, then the extra parameters in the order of the
\* add_extra_param calls, as given, also when a name is a reserved one.
C19_ParameterOrder ==
  Assembled =>
    /\ Names(EngineForm) =
         GrantNames
           \o (IF builder.scopes # <<>> THEN << "scope" >> ELSE <<>>)
           \o (IF client.auth_type = "RequestBody"
               THEN << "client_id" >>
                    \o (IF client.client_secret # None THEN << "client_secret" >> ELSE <<>>)
               ELSE <<>>)
           \o (IF RedirectGiven # None THEN << "redirect_uri" >> ELSE <<>>)
    /\ RedirectGiven # None => Values(EngineForm, "redirect_uri") = << unwrap(RedirectGiven) >>
    /\ SubSeq(Form, Len(EngineForm) + 1, Len(Form)) = builder.extra_params

\* a code exchange with verifier, body authentication, redirect URL and two
\* extra parameters with reserved names
C19_Witness ==
  /\ Assembled
  /\ grant = "exchange_code"
  /\ client.client_secret # None
  /\ Names(Form) = << "grant_type", "code", "code_verifier", "client_id", "client_secret",
                      "redirect_uri", "client_secret", "scope" >>
  /\ Form[8] = << Word("scope"), << "a", "&", "b" >> >>

\* C20: every assembled request has the method POST, exactly one Accept
\* header, application/json, exactly one Content-Type header,
\* application/x-www-form-urlencoded, and the configured endpoint URL as it
\* is.
C20_PostFormToEndpoint ==
  Assembled =>
    /\ TheRequest.method = "POST"
    /\ Headers(ACCEPT) = << CONTENT_TYPE_JSON >>
    /\ Headers(CONTENT_TYPE) = << Word("application/x-www-form-urlencoded") >>
    /\ TheRequest.url = unwrap(EndpointOf(grant))

\* an introspection request went to the introspection URL, not the token URL
C20_Witness ==
  /\ Assembled
  /\ grant = "introspect"
  /\ token_url = Some(TOKEN_URL)
  /\ TheRequest.url = INTROSPECT_URL
  /\ TheRequest.method = "POST"
  /\ Len(TheRequest.headers) = 3

(* ---------------------- reading an authorization URL ------------------ *)
\* AuthorizationRequest::url returned
UrlBuilt == stage = "returned" /\ authorize_url # None
TheUrl == unwrap(authorize_url)[1]
TheCsrfToken == unwrap(authorize_url)[2]

\* the query parameters a server reads from the URL, in order, and those
\* of them the authorize endpoint had of its own
Query == parse_pairs(TheUrl.query)
OwnQuery == parse_pairs(authorization_request.auth_url.query)

\* the text of the joined scopes is not empty
ScopeTextGiven ==
  \/ Len(authorization_request.scopes) >= 2
  \/ Len(authorization_request.scopes) = 1 /\ authorization_request.scopes[1] # <<>>

\* C21: AuthorizationRequest::url invokes no transport and appends to the
\* query of the authorize endpoint, in this order: response_type, client_id,
\* state, code_challenge and code_challenge_method (both, and only when a
\* PKCE challenge was set), redirect_uri (only when set), scope (only when a
\* scope was added), the extra parameters in insertion order; the CsrfToken
\* returned is the state written into the URL.
C21_AuthorizeUrlParameters ==
  UrlBuilt =>
    LET r == authorization_request
        own == Len(OwnQuery)
        added == SubSeq(Query, own + 1, Len(Query) - Len(r.extra_params))
    IN  /\ requests = <<>> /\ http_response = None
        /\ TheUrl.base = r.auth_url.base
        /\ SubSeq(Query, 1, own) = OwnQuery
        /\ Names(added) =
             << "response_type", "client_id", "state" >>
               \o (IF r.pkce_challenge # None
                   THEN << "code_challenge", "code_challenge_method" >> ELSE <<>>)
               \o (IF r.redirect_url # None THEN << "redirect_uri" >> ELSE <<>>)
               \o (IF ScopeTextGiven THEN << "scope" >> ELSE <<>>)
        /\ Values(added, "scope") # <<>> =>
             /\ r.scopes # <<>>
             /\ IsScopeList(Values(added, "scope")[1], r.scopes)
        /\ Values(added, "response_type") = << r.response_type >>
        /\ Values(added, "client_id") = << client.client_id >>
        /\ Values(added, "state") = << TheCsrfToken >>
        /\ TheCsrfToken = r.state
        /\ r.redirect_url # None => Values(added, "redirect_uri") = << unwrap(r.redirect_url) >>
        /\ r.pkce_challenge # None =>
             /\ Values(added, "code_challenge") = << PKCE_CHALLENGE.challenge >>
             /\ Values(added, "code_challenge_method") = << PKCE_CHALLENGE.method >>
        /\ SubSeq(Query, Len(Query) - Len(r.extra_params) + 1, Len(Query)) = r.extra_params

\* an implicit-flow URL with PKCE challenge, redirect URI, two scopes and an
\* extra parameter, on an endpoint that has a query of its own
C21_Witness ==
  /\ UrlBuilt
  /\ Names(Query) =
       << "tenant", "response_type", "client_id", "state", "code_challenge",
          "code_challenge_method", "redirect_uri", "scope", "client_secret" >>
  /\ Values(Query, "response_type") = << Word("token") >>
  /\ Values(Query, "scope") = << << "read", " ", "write" >> >>
  /\ TheCsrfToken = << "s", "=", "t" >>

\* a Content-Type header is present and is not accepted
Mismatched(content_type) == content_type # NoHeader /\ ~ BeginsWithJson(content_type)

\* C22: the decoder checks the status first, then the Content-Type, then
\* for an empty body, then parses: a response that is not 200 never gets the
\* Content-Type error, a 200 response with a mismatched Content-Type gets it
\* also when its body is empty, an empty 200 body that passed gets the
\* empty-body error, and every response is exactly one of success,
\* ServerResponse, Parse and Other.
C22_DecoderOrder ==
  Answered =>
    /\ response.kind \in {"Ok", "ServerResponse", "Parse", "Other"}
    /\ Answer.status_code # STATUS_OK =>
         /\ ~ RejectedContentType
         /\ Answer.body = <<>> => response = Other("Server returned empty error response")
    /\ (Answer.status_code = STATUS_OK /\ Mismatched(Answer.content_type)) =>
         RejectedContentType
    /\ (Answer.status_code = STATUS_OK /\ ~ Mismatched(Answer.content_type)
          /\ Answer.body = <<>>) =>
         response = Other("Server returned empty response body")

\* an empty 200 response of type text/html: the Content-Type error wins
C22_Witness ==
  /\ Answered
  /\ Answer = HttpOk(STATUS_OK, CT_HTML, <<>>)
  /\ RejectedContentType

(* ------------------------------- C23 ---------------------------------- *)
\* C23: the deadline is computed once, ahead of the first poll, and no step
\* of the session moves it afterwards, whatever the responses and whatever
\* happens to the interval.
C23_DeadlineNeverMoves ==
  [][ \A m \in Modes :
        /\ pc[m] # "start" => timeout_dt'[m] = timeout_dt[m]
        /\ Count(events'[m], "start") <= 1
        /\ (Sent(m)' > 0 \/ Count(events'[m], "clock") > 0) => events'[m][1].ev = "start" ]_vars

\* after a transport failure, an authorization_pending and a slow_down the
\* interval has grown and the deadline is the one computed at the start
C23_Witness ==
  \E m \in Modes :
     /\ Sent(m) = 3
     /\ IsTransportFailure(respLog[1])
     /\ IsPending(respLog[2])
     /\ IsSlowDown(respLog[3])
     /\ pc[m] = "loop"
     /\ interval[m] > dev_auth_resp.interval
     /\ timeout_dt[m] = StartOf(m) + ChosenTimeout

\* C24: every device-token request of one polling session is the same
\* HttpRequest as the first one; its grant_type is
\* urn:ietf:params:oauth:grant-type:device_code, its device_code is the one
\* the device-authorization response holds now, and its last fields are the
\* extra parameters the builder holds now: neither was changed since a
\* request was made from it.
C24_IdenticalDeviceTokenRequests ==
  \A m \in Modes :
    Sent(m) > 0 =>
      LET first == SentRequests(m)[1]
          form == parse_pairs(first.body)
      IN  /\ \A i \in DOMAIN SentRequests(m) : SentRequests(m)[i] = first
          /\ first = prepare_request(grant, client, token_url, builder, dev_auth_resp).req
          /\ Values(form, "grant_type") = << DEVICE_CODE_GRANT >>
          /\ Lookup(form, Word("device_code")) = << dev_auth_resp.device_code >>
          /\ SubSeq(form, Len(form) - Len(builder.extra_params) + 1, Len(form))
               = builder.extra_params

\* a session of the builder with an extra parameter sent its fourth request,
\* after a transport failure, authorization_pending and slow_down
C24_Witness ==
  \E m \in Modes :
    /\ Sent(m) = 4
    /\ builder.extra_params # <<>>
    /\ dev_auth_resp.device_code = << "c", "+", "2" >>
    /\ IsTransportFailure(respLog[1])
    /\ IsPending(respLog[2])
    /\ IsSlowDown(respLog[3])
    /\ SentRequests(m)[4] = SentRequests(m)[1]

\* C25: the poll interval never decreases: the intervals a polling session
\* sent its requests under, followed by its current one, begin no lower than
\* the advertised interval and are in non-decreasing order.
C25_IntervalNeverDecreases ==
  \A m \in Modes :
    Polling(m) =>
      /\ Intervals(m)[1] >= dev_auth_resp.interval
      /\ \A i, j \in DOMAIN Intervals(m) : i <= j => Intervals(m)[i] <= Intervals(m)[j]

\* a transport failure doubled the interval, authorization_pending kept it
\* and slow_down lengthened it
C25_Witness ==
  \E m \in Modes :
    /\ Intervals(m) = << 5, 10, 10, 15 >>
    /\ IsTransportFailure(respLog[1])
    /\ IsPending(respLog[2])
    /\ IsSlowDown(respLog[3])

\* every session returns or panics, at the latest at the clock reading past its deadline
SessionsStop == <>[](\A m \in Modes : pc[m] \in {"done", "panicked"})

\* C26: when every call of the clock, the transport and the sleep function
\* returns and the clock strictly advances, every polling session eventually
\* returns a result (Done), whatever the responses are.
C26_EverySessionReachesDone == <>[](\A m \in Modes : pc[m] = "done")

\* the iteration that read the clock at position i of session m went on to
\* the transport: its request follows, or is the next thing the session does
RequestFollows(m, i) ==
  IF i < Len(events[m]) THEN events[m][i + 1].ev = "send" ELSE pc[m] = "poll"
\* the session returned because of the clock reading at position i
ExpiredAt(m, i) == i = Len(events[m]) /\ result[m] = Expired

\* C27 as stated: an iteration whose clock reading equals the deadline does
\* not expire and sends one more device-token request; a session expires
\* only at a reading strictly later than the deadline.
C27_AtDeadlineOneMoreRequest ==
  \A m \in Modes : \A i \in ClockReads(m) :
     /\ events[m][i].d = timeout_dt[m] => ~ ExpiredAt(m, i) /\ RequestFollows(m, i)
     /\ ExpiredAt(m, i) => events[m][i].d > timeout_dt[m]

\* C27 amended: an iteration whose clock reading equals the deadline does not
\* expire, and sends one more device-token request when the client has a
\* token URL (without one it returns Other("no token_url provided") and sends
\* nothing); a session expires only at a reading strictly later than the
\* deadline.
C27_AtDeadlineNoExpiry ==
  \A m \in Modes : \A i \in ClockReads(m) :
     /\ events[m][i].d = timeout_dt[m] =>
          /\ ~ ExpiredAt(m, i)
          /\ token_url # None => RequestFollows(m, i)
          /\ token_url = None =>
               i = Len(events[m]) /\ pc[m] \in {"poll", "done"} /\ Sent(m) = 0
     /\ ExpiredAt(m, i) => events[m][i].d > timeout_dt[m]

\* a session read the clock at its deadline, sent a request that was answered
\* authorization_pending, and expired at the next, later reading
C27_Witness ==
  \E m \in Modes : \E i \in ClockReads(m) :
     /\ events[m][i].d = timeout_dt[m]
     /\ i + 1 < Len(events[m])
     /\ events[m][i + 1].ev = "send"
     /\ IsPending(ResponseOf(m, i + 1))
     /\ ExpiredAt(m, Len(events[m]))
     /\ Last(events[m]).d > timeout_dt[m]

\* the send event at position i of session m was the last thing the session
\* did: it returned r, with no sleep and no further request
EndsWith(m, i, r) == i = Len(events[m]) /\ pc[m] = "done" /\ result[m] = r

\* C28: a device-token request is followed by a sleep or another request only
\* when its outcome was a transport failure, authorization_pending or
\* slow_down; a response decoded as Parse or as Other ends the session with
\* that error, the request being the last call the session made.
C28_OnlyTransientRetried ==
  \A m \in Modes : \A i \in Sends(m) :
     LET res == ResponseOf(m, i)
     IN  /\ i < Len(events[m]) =>
               IsTransportFailure(res) \/ IsPending(res) \/ IsSlowDown(res)
         /\ (res.ok /\ endpoint_response(res).kind \in {"Parse", "Other"}) =>
               EndsWith(m, i, endpoint_response(res))

\* after authorization_pending, a 400 response with an unparsable body ended
\* both sessions with Parse
C28_Witness ==
  /\ Len(respLog) = 2
  /\ IsPending(respLog[1])
  /\ respLog[2] = HttpOk(400, CONTENT_TYPE_JSON, GarbageBody)
  /\ \A m \in Modes : Sent(m) = 2 /\ EndsWith(m, Len(events[m]), Parse(GarbageBody))

\* the calls of http_client and sleep_fn session m made, in order
RECURSIVE Calls(_)
Calls(s) ==
  IF s = <<>> THEN <<>>
  ELSE (IF s[1].ev \in {"send", "sleep_call"} THEN << s[1].ev >> ELSE <<>>) \o Calls(Tail(s))
Sleeps(m) == Count(events[m], "sleep_call")

\* C29: in every polling session the calls of the transport and of the sleep
\* function alternate, the first being a request; each call of the sleep
\* function comes directly after a request whose outcome was a transport
\* failure, authorization_pending or slow_down; so sleeps <= requests <=
\* sleeps + 1, a session a response ended has requests = sleeps + 1 and a
\* session expiry ended has requests = sleeps.
C29_RequestsAndSleepsAlternate ==
  \A m \in Modes :
     /\ \A k \in DOMAIN Calls(events[m]) :
          Calls(events[m])[k] = (IF k % 2 = 1 THEN "send" ELSE "sleep_call")
     /\ \A i \in DOMAIN events[m] :
          events[m][i].ev = "sleep_call" =>
            /\ i > 1
            /\ events[m][i - 1].ev = "send"
            /\ LET res == ResponseOf(m, i - 1)
               IN  IsTransportFailure(res) \/ IsPending(res) \/ IsSlowDown(res)
     /\ Sleeps(m) <= Sent(m)
     /\ Sent(m) <= Sleeps(m) + 1
     /\ (pc[m] = "done" /\ events[m] # <<>> /\ Last(events[m]).ev = "send") =>
          Sent(m) = Sleeps(m) + 1
     /\ result[m] = Expired => Sent(m) = Sleeps(m)

\* the blocking session expired after three requests and three sleeps
C29_Witness ==
  /\ result["request"] = Expired
  /\ Calls(events["request"]) =
       << "send", "sleep_call", "send", "sleep_call", "send", "sleep_call" >>

\* C30 as stated: the body of a code exchange holds redirect_uri exactly when
\* the client has a redirect URL and holds no scope parameter; the body of
\* every other request holds no redirect_uri, whatever the client has.
C30_RedirectAndScopeByGrant ==
  Assembled =>
    IF grant = "exchange_code"
    THEN /\ (Values(Form, "redirect_uri") # <<>>) <=> (client.redirect_url # None)
         /\ Values(Form, "scope") = <<>>
    ELSE Values(Form, "redirect_uri") = <<>>

\* C30 amended: among the parameters ahead of the caller's extra parameters,
\* a code exchange holds redirect_uri, once and with the client's redirect
\* URL, exactly when the client has one, and holds no scope parameter; every
\* other request holds no redirect_uri, whatever the client has. The extra
\* parameters follow as given, whatever their names.
C30_EngineRedirectAndScopeByGrant ==
  Assembled =>
    /\ IF grant = "exchange_code"
       THEN /\ Values(EngineForm, "redirect_uri") = client.redirect_url
            /\ Values(EngineForm, "scope") = <<>>
       ELSE Values(EngineForm, "redirect_uri") = <<>>
    /\ SubSeq(Form, Len(EngineForm) + 1, Len(Form)) = builder.extra_params

\* a code exchange of a client with a redirect URL, given an extra parameter
\* called scope: redirect_uri is the client's, the only scope is the caller's
C30_Witness ==
  /\ Assembled
  /\ grant = "exchange_code"
  /\ client.redirect_url = Some(REDIRECT_URL)
  /\ Values(Form, "redirect_uri") = << REDIRECT_URL >>
  /\ Values(EngineForm, "scope") = <<>>
  /\ Values(Form, "scope") = << << "a", "&", "b" >> >>
====
